---- MODULE Spec2Model ----
(***************************************************************************)
(* Model of the YouTube automation session orchestrator.                   *)
(*                                                                         *)
(*   - the Session object (src/src/models/session.ts): clock reads,        *)
(*     counters, telemetry lists and checkLimits;                          *)
(*   - the xstate machine youtubeMachine (src/unnamed/part_001);           *)
(*   - the recursive dispatch loop of src/src/index.ts (handleNextAction   *)
(*     and the handle* functions) with the phase controllers it calls.     *)
(*                                                                         *)
(* Time is counted in whole minutes, the unit of the configured limits.    *)
(***************************************************************************)
EXTENDS Integers, Sequences, FiniteSets, TLC

VARIABLES
    now,          \* the wall clock (new Date()), in minutes
    session,      \* the Session object
    limits,       \* the verdict of the most recent checkLimits call
    lastOp,       \* the most recent Session method called ("tick": the clock moved)
    pc,           \* position of the dispatch loop of index.ts
    stack,        \* pending handleNextAction frames that still have code to run
    actionResult, \* the ActionResult handed to handleNextAction
    phases,       \* phase controllers invoked so far, in order
    homeAlwaysWatch, \* every result of browseHomePage so far was watchVideo
    ended,        \* the session has ended (limit, endSession or random end)
    failed,       \* an Action Provider call has failed
    loop,         \* locals of the running phase controller
    summary,      \* the value of generateSessionSummary() taken by main
    machine,      \* state and context of youtubeMachine
    config,       \* the configured probabilities (percentages)
    output,       \* what main has flushed and released: report, raw log, browser, exit
    floating,     \* "started": a playRandomVideo call made without await is in flight
    overrides,    \* global.probabilityCheck and the originals the wrappers have saved
    logEntries,   \* enhancedLogger.logEntries: the probability checks logged
    call          \* the last call of a random helper: its inputs and result

randomVars == <<logEntries, call>>

vars == <<now, session, limits, lastOp, pc, stack, actionResult, phases,
          homeAlwaysWatch, ended, failed, loop, summary, machine, config, output,
          floating, overrides, randomVars>>

orchVars == <<pc, stack, actionResult, phases, homeAlwaysWatch, ended, failed, loop,
              summary, config, output, floating, overrides>>

----------------------------------------------------------------------------
(* Bounds of the model *)

InitialClock == 1
MaxClock == 3
MaxCount == 2
MaxLog == 1
MaxPhases == 3
MaxDepth == 1

(* The limits a session is configured with (config.sessionDuration,        *)
(* config.maxVideos, config.idleTimeout), in minutes / videos.             *)
(* The limits tried when the Session is exercised on its own *)
SessionConfigs ==
    [sessionDuration : {1, 2}, maxVideos : {0, 1}, idleTimeout : {1, 2}]
(* The limits tried under the dispatch loop and the state machine; the     *)
(* second is the configuration {maxVideos: 1, sessionDuration: 60,         *)
(* idleTimeout: 60}, whose time limits the bounded clock never reaches.    *)
RunConfigs ==
    {[sessionDuration |-> 2, maxVideos |-> 2, idleTimeout |-> 1],
     [sessionDuration |-> 60, maxVideos |-> 1, idleTimeout |-> 60],
     [sessionDuration |-> 1, maxVideos |-> 0, idleTimeout |-> 60]}

\* lastOp after a checkLimits call; "checkLimitsAgain": the call before it was
\* a checkLimits call too, with nothing in between
CheckOps == {"checkLimits", "checkLimitsAgain"}

(* The Home probabilities tried: every option at 50; homeToVideo = 100 with *)
(* every other option at 0; homeToSearch = 100 with every other option at 0 *)
HomeConfigs ==
    {[checkNotifications |-> 50, homeToSearch |-> 50, homeToVideo |-> 50,
      stopScrollingToWatchVideo |-> 50, homeVideoToSearch |-> 50,
      clickHomeVideo |-> 50, endHomeBrowsing |-> 50],
     [checkNotifications |-> 0, homeToSearch |-> 0, homeToVideo |-> 100,
      stopScrollingToWatchVideo |-> 0, homeVideoToSearch |-> 0,
      clickHomeVideo |-> 0, endHomeBrowsing |-> 0],
     [checkNotifications |-> 0, homeToSearch |-> 100, homeToVideo |-> 0,
      stopScrollingToWatchVideo |-> 0, homeVideoToSearch |-> 0,
      clickHomeVideo |-> 0, endHomeBrowsing |-> 0]}

NoReason == "none"
Reasons == {"duration", "videoCount", "idle"}

----------------------------------------------------------------------------
(* Session: src/src/models/session.ts *)

EmptySummarize ==
    [random |-> <<>>, error |-> <<>>, stateTransition |-> <<>>, activities |-> <<>>]

\* constructor: startTime and lastActivityTime are two successive clock reads
NewSession(cfg, t1, t2) ==
    [startTime        |-> t1,
     lastActivityTime |-> t2,
     videosWatched    |-> 0,
     searchesPerformed |-> 0,
     sessionDuration  |-> cfg.sessionDuration,
     maxVideos        |-> cfg.maxVideos,
     idleTimeout      |-> cfg.idleTimeout,
     interactions     |-> [likes |-> 0, comments |-> 0, subscribes |-> 0],
     summarize        |-> EmptySummarize]

updateActivityResetsToElapsed(s, t) == [s EXCEPT !.lastActivityTime = t - s.startTime]

updateActivityKeepsTime(s, t) == s

updateActivity(s, t) == [s EXCEPT !.lastActivityTime = t]

incrementVideosWatchedDecrements(s) == [s EXCEPT !.videosWatched = @ - 1]

incrementVideosWatched(s) == [s EXCEPT !.videosWatched = @ + 1]

incrementSearches(s) == [s EXCEPT !.searchesPerformed = @ + 1]

recordInteraction(s, type) == [s EXCEPT !.interactions[type] = @ + 1]

\* the entry put in front of the list instead of behind it
recordRandomPrepends(s, configValue, configName, actualValue) ==
    [s EXCEPT !.summarize.random =
        <<[configValue |-> configValue, configName |-> configName,
           actualValue |-> actualValue, result |-> actualValue <= configValue]>> \o @]

recordRandomStrict(s, configValue, configName, actualValue) ==
    [s EXCEPT !.summarize.random = Append(@,
        [configValue |-> configValue, configName |-> configName,
         actualValue |-> actualValue, result |-> actualValue < configValue])]

recordRandom(s, configValue, configName, actualValue) ==
    [s EXCEPT !.summarize.random = Append(@,
        [configValue |-> configValue, configName |-> configName,
         actualValue |-> actualValue, result |-> actualValue <= configValue])]

recordError(s, error, stk, source) ==
    [s EXCEPT !.summarize.error = Append(@,
        [source |-> source, message |-> error, stack |-> stk])]

recordActivities(s, action, source) ==
    [s EXCEPT !.summarize.activities = Append(@, [action |-> action, source |-> source])]

recordStateTransition(s, stateFrom, stateTo) ==
    [s EXCEPT !.summarize.stateTransition = Append(@,
        [stateFrom |-> stateFrom, stateTo |-> stateTo])]

getTotalInteractions(s) ==
    s.interactions.likes + s.interactions.comments + s.interactions.subscribes

\* what the bounds of the model count
TotalCount(s) == s.videosWatched + s.searchesPerformed + getTotalInteractions(s)
TotalLog(s) ==
    Len(s.summarize.random) + Len(s.summarize.error)
      + Len(s.summarize.stateTransition) + Len(s.summarize.activities)

getSessionDuration(s, t) == t - s.startTime

getIdleTime(s, t) == t - s.lastActivityTime

\* A method call is modelled by the value it returns (ret) and the object it
\* leaves behind (self).
checkLimitsVideoCountFirst(s, t) ==
    [ret |-> IF s.videosWatched >= s.maxVideos
               THEN [exceedsLimit |-> TRUE, reason |-> "videoCount"]
             ELSE IF getSessionDuration(s, t) >= s.sessionDuration
               THEN [exceedsLimit |-> TRUE, reason |-> "duration"]
             ELSE IF getIdleTime(s, t) >= s.idleTimeout
               THEN [exceedsLimit |-> TRUE, reason |-> "idle"]
             ELSE [exceedsLimit |-> FALSE, reason |-> NoReason],
     self |-> s]

checkLimitsStrict(s, t) ==
    [ret |-> IF getSessionDuration(s, t) > s.sessionDuration
               THEN [exceedsLimit |-> TRUE, reason |-> "duration"]
             ELSE IF s.videosWatched > s.maxVideos
               THEN [exceedsLimit |-> TRUE, reason |-> "videoCount"]
             ELSE IF getIdleTime(s, t) > s.idleTimeout
               THEN [exceedsLimit |-> TRUE, reason |-> "idle"]
             ELSE [exceedsLimit |-> FALSE, reason |-> NoReason],
     self |-> s]

checkLimitsLogsActivity(s, t) ==
    [ret |-> IF getSessionDuration(s, t) >= s.sessionDuration
               THEN [exceedsLimit |-> TRUE, reason |-> "duration"]
             ELSE IF s.videosWatched >= s.maxVideos
               THEN [exceedsLimit |-> TRUE, reason |-> "videoCount"]
             ELSE IF getIdleTime(s, t) >= s.idleTimeout
               THEN [exceedsLimit |-> TRUE, reason |-> "idle"]
             ELSE [exceedsLimit |-> FALSE, reason |-> NoReason],
     self |-> recordActivities(s, "None", "checkLimits")]

checkLimitsTouchesActivity(s, t) ==
    [ret |-> IF getSessionDuration(s, t) >= s.sessionDuration
               THEN [exceedsLimit |-> TRUE, reason |-> "duration"]
             ELSE IF s.videosWatched >= s.maxVideos
               THEN [exceedsLimit |-> TRUE, reason |-> "videoCount"]
             ELSE IF getIdleTime(s, t) >= s.idleTimeout
               THEN [exceedsLimit |-> TRUE, reason |-> "idle"]
             ELSE [exceedsLimit |-> FALSE, reason |-> NoReason],
     self |-> updateActivity(s, t)]

checkLimitsWithoutVideoCount(s, t) ==
    [ret |-> IF getSessionDuration(s, t) >= s.sessionDuration
               THEN [exceedsLimit |-> TRUE, reason |-> "duration"]
             ELSE IF getIdleTime(s, t) >= s.idleTimeout
               THEN [exceedsLimit |-> TRUE, reason |-> "idle"]
             ELSE [exceedsLimit |-> FALSE, reason |-> NoReason],
     self |-> s]

checkLimits(s, t) ==
    [ret |-> IF getSessionDuration(s, t) >= s.sessionDuration
               THEN [exceedsLimit |-> TRUE, reason |-> "duration"]
             ELSE IF s.videosWatched >= s.maxVideos
               THEN [exceedsLimit |-> TRUE, reason |-> "videoCount"]
             ELSE IF getIdleTime(s, t) >= s.idleTimeout
               THEN [exceedsLimit |-> TRUE, reason |-> "idle"]
             ELSE [exceedsLimit |-> FALSE, reason |-> NoReason],
     self |-> s]

generateSessionSummary(s, t) ==
    [duration          |-> t - s.startTime,
     videosWatched     |-> s.videosWatched,
     searchesPerformed |-> s.searchesPerformed,
     interactions      |-> s.interactions,
     total             |-> getTotalInteractions(s)]

NoVerdict == [exceedsLimit |-> FALSE, reason |-> NoReason]
\* the result decideInteractions starts from, and returns from its catch block
NoInteraction == [liked |-> FALSE, commented |-> FALSE, subscribed |-> FALSE]

NoLoop == [n |-> 0, watchedTime |-> 0, watchDuration |-> 0, result |-> NoInteraction]
\* nothing flushed yet, the browser still open, the process running
NoOutput ==
    [reportAttempted |-> FALSE, reportSaved |-> FALSE, report |-> <<>>,
     rawSaved |-> FALSE, rawLogs |-> <<>>,
     closeAttempted |-> FALSE, closed |-> FALSE, exit |-> "running"]

\* global.probabilityCheck is the function of utils/random, no wrapper runs
NoOverride == [probabilityCheck |-> "original", saved |-> <<>>]

NoSummary == [duration |-> 0, videosWatched |-> 0, searchesPerformed |-> 0,
              interactions |-> [likes |-> 0, comments |-> 0, subscribes |-> 0],
              total |-> 0]

----------------------------------------------------------------------------
(* Initial state: the Session has just been constructed *)

InitSession(configs) ==
    /\ \E cfg \in configs, t2 \in InitialClock .. InitialClock + 1 :
          /\ session = NewSession(cfg, InitialClock, t2)
          /\ now = t2
    /\ limits = NoVerdict
    /\ lastOp = "constructor"

InitOrchestrator(homes) ==
    /\ pc = "main"
    /\ stack = <<>>
    /\ actionResult = [action |-> "none", reason |-> NoReason]
    /\ phases = <<>>
    /\ homeAlwaysWatch = TRUE
    /\ ended = FALSE
    /\ failed = FALSE
    /\ loop = NoLoop
    /\ summary = NoSummary
    /\ config \in [home : homes]
    /\ output = NoOutput
    /\ floating = "none"
    /\ overrides = NoOverride

InitMachine ==
    machine = [state |-> "initializing", lastAction |-> "none",
               videoWatchCount |-> 0, searchCount |-> 0, endReason |-> NoReason]

\* no random helper has been called, enhancedLogger has just been constructed
NoCall ==
    [fn |-> "none", percentage |-> 0, randomValue |-> 0, result |-> FALSE,
     property |-> "none", weights |-> <<>>, normalized |-> <<>>,
     selected |-> "none"]

InitLogger == logEntries = <<>> /\ call = NoCall

Init ==
    /\ InitSession(RunConfigs)
    /\ InitOrchestrator(HomeConfigs)
    /\ InitMachine
    /\ InitLogger

\* the Session on its own: any limits, one Home configuration (never read)
InitAnySession ==
    /\ InitSession(SessionConfigs)
    /\ InitOrchestrator({CHOOSE h \in HomeConfigs : h.homeToVideo = 100})
    /\ InitMachine
    /\ InitLogger

\* time passes
Tick ==
    /\ now < MaxClock
    /\ now' = now + 1
    /\ lastOp' = "tick"
    /\ UNCHANGED <<session, limits, orchVars, machine, randomVars>>

----------------------------------------------------------------------------
(* The Session under an arbitrary sequence of calls of its methods *)

SUpdateActivity ==
    /\ session' = updateActivity(session, now)
    /\ lastOp' = "updateActivity"
    /\ UNCHANGED <<now, limits, orchVars, machine, randomVars>>

SIncrementVideosWatched ==
    /\ TotalCount(session) < MaxCount
    /\ session' = incrementVideosWatched(session)
    /\ lastOp' = "incrementVideosWatched"
    /\ UNCHANGED <<now, limits, orchVars, machine, randomVars>>

SIncrementSearches ==
    /\ TotalCount(session) < MaxCount
    /\ session' = incrementSearches(session)
    /\ lastOp' = "incrementSearches"
    /\ UNCHANGED <<now, limits, orchVars, machine, randomVars>>

SRecordInteraction ==
    /\ \E type \in {"likes", "comments", "subscribes"} :
          /\ TotalCount(session) < MaxCount
          /\ session' = recordInteraction(session, type)
    /\ lastOp' = "recordInteraction"
    /\ UNCHANGED <<now, limits, orchVars, machine, randomVars>>

SRecordRandom ==
    /\ TotalLog(session) < MaxLog
    /\ \E actualValue \in {50, 51} :
          session' = recordRandom(session, 50, "probPauseOnVideo", actualValue)
    /\ lastOp' = "recordRandom"
    /\ UNCHANGED <<now, limits, orchVars, machine, randomVars>>

SRecordError ==
    /\ TotalLog(session) < MaxLog
    /\ session' = recordError(session, "e", "browseHomePage", "home")
    /\ lastOp' = "recordError"
    /\ UNCHANGED <<now, limits, orchVars, machine, randomVars>>

SRecordActivities ==
    /\ TotalLog(session) < MaxLog
    /\ session' = recordActivities(session, "CheckNoti", "home")
    /\ lastOp' = "recordActivities"
    /\ UNCHANGED <<now, limits, orchVars, machine, randomVars>>

SRecordStateTransition ==
    /\ TotalLog(session) < MaxLog
    /\ session' = recordStateTransition(session, "Home", "Search")
    /\ lastOp' = "recordStateTransition"
    /\ UNCHANGED <<now, limits, orchVars, machine, randomVars>>

SCheckLimits ==
    /\ limits' = checkLimits(session, now).ret
    /\ session' = checkLimits(session, now).self
    /\ lastOp' = IF lastOp \in CheckOps THEN "checkLimitsAgain" ELSE "checkLimits"
    /\ UNCHANGED <<now, orchVars, machine, randomVars>>

NextSession ==
    \/ Tick
    \/ SUpdateActivity
    \/ SIncrementVideosWatched
    \/ SIncrementSearches
    \/ SRecordInteraction
    \/ SRecordRandom
    \/ SRecordError
    \/ SRecordActivities
    \/ SRecordStateTransition
    \/ SCheckLimits

SpecSession == InitAnySession /\ [][NextSession]_vars

----------------------------------------------------------------------------
(* Random draws: Math.random() * 100, a value of [0, 100) *)

RandomValues == {0, 10, 39, 40, 70, 71, 79, 80, 99}

\* probabilityCheck of utils/random: Math.random() * 100 <= percentage
\* the comparison turned around
probabilityCheckInverted(percentage, randomValue) == randomValue > percentage

probabilityCheck(percentage, randomValue) == randomValue <= percentage

----------------------------------------------------------------------------
(* youtubeMachine: src/unnamed/part_001 *)

BrowsingStates ==
    {"checkingLimits", "homePage", "search", "watchingVideo", "browsingChannel",
     "decidingInteractions", "decidingNext"}
InvokingStates ==
    {"homePage", "search", "watchingVideo", "browsingChannel",
     "decidingInteractions", "terminating", "collectingStatistics"}
EndStates == {"terminating", "collectingStatistics", "completed"}

\* The action tags a service can resolve with: the tags the guards test for.
\* The services themselves are placeholders to be supplied from outside.
ServiceTags ==
    {"homePage", "goToHome", "search", "watchVideo", "browseChannel", "endSession"}

\* guards
withinLimitsAlways(s, t) == TRUE

withinLimits(s, t) == ~checkLimits(s, t).ret.exceedsLimit

shouldCheckLimits(lastAction) == TRUE

shouldGoToHome(lastAction, r) ==
    \/ lastAction = "goToHome"
    \/ lastAction = "search" /\ probabilityCheck(10, r)

shouldGoToSearch(lastAction, r) ==
    \/ lastAction = "search"
    \/ lastAction = "homePage" /\ probabilityCheck(40, r)
    \/ lastAction = "browseChannel" /\ probabilityCheck(15, r)
    \/ lastAction = "watchVideo" /\ probabilityCheck(45, r)

shouldWatchVideo(lastAction, r) ==
    \/ lastAction = "watchVideo"
    \/ lastAction = "homePage" /\ probabilityCheck(60, r)
    \/ lastAction = "search" /\ probabilityCheck(90, r)
    \/ lastAction = "browseChannel" /\ probabilityCheck(70, r)

shouldBrowseChannel(lastAction, r) ==
    \/ lastAction = "browseChannel"
    \/ lastAction = "watchVideo" /\ probabilityCheck(10, r)

shouldEndSession(lastAction, r) ==
    \/ lastAction = "endSession"
    \/ lastAction = "watchVideo" /\ probabilityCheck(10, r)

\* What follows a guard in the ordered list: its target when it can hold, the
\* rest of the list when it can fail.
FirstMatch(outcomes, target, rest) ==
    (IF TRUE \in outcomes THEN {target} ELSE {})
      \cup (IF FALSE \in outcomes THEN rest ELSE {})

\* decidingNext.always: the targets the ordered guard list can select, the
\* target of the first guard that holds over the draws r of its
\* probabilityCheck ("decidingNext": no guard holds, the machine stays)
DecidingNextTargetsAnyMatch(lastAction) ==
    {"checkingLimits"}
      \cup (IF \E r \in RandomValues : shouldGoToHome(lastAction, r) THEN {"homePage"} ELSE {})
      \cup (IF \E r \in RandomValues : shouldGoToSearch(lastAction, r) THEN {"search"} ELSE {})
      \cup (IF \E r \in RandomValues : shouldWatchVideo(lastAction, r)
            THEN {"watchingVideo"} ELSE {})
      \cup (IF \E r \in RandomValues : shouldBrowseChannel(lastAction, r)
            THEN {"browsingChannel"} ELSE {})
      \cup (IF \E r \in RandomValues : shouldEndSession(lastAction, r)
            THEN {"terminating"} ELSE {})

DecidingNextTargets(lastAction) ==
    IF shouldCheckLimits(lastAction) THEN {"checkingLimits"}
    ELSE
      FirstMatch({shouldGoToHome(lastAction, r) : r \in RandomValues}, "homePage",
      FirstMatch({shouldGoToSearch(lastAction, r) : r \in RandomValues}, "search",
      FirstMatch({shouldWatchVideo(lastAction, r) : r \in RandomValues}, "watchingVideo",
      FirstMatch({shouldBrowseChannel(lastAction, r) : r \in RandomValues}, "browsingChannel",
      FirstMatch({shouldEndSession(lastAction, r) : r \in RandomValues}, "terminating",
                 {"decidingNext"})))))

\* checkingLimits.always
CheckingLimitsTarget(s, t) == IF withinLimits(s, t) THEN "homePage" ELSE "terminating"

CheckingLimitsReason(s, t) ==
    IF checkLimits(s, t).ret.reason # NoReason
    THEN checkLimits(s, t).ret.reason ELSE "unknown"

\* invoke.onDone.target of each invoking state
OnDoneTargetRestarts(state) ==
    CASE state \in {"homePage", "search", "browsingChannel", "decidingInteractions"}
           -> "decidingNext"
      [] state = "watchingVideo" -> "decidingInteractions"
      [] state = "terminating" -> "homePage"
      [] state = "collectingStatistics" -> "completed"

OnDoneTarget(state) ==
    CASE state \in {"homePage", "search", "browsingChannel", "decidingInteractions"}
           -> "decidingNext"
      [] state = "watchingVideo" -> "decidingInteractions"
      [] state = "terminating" -> "collectingStatistics"
      [] state = "collectingStatistics" -> "completed"

\* invoke.onDone.actions: the assign of each invoking state
OnDoneAssign(m, state, tag) ==
    CASE state \in {"homePage", "browsingChannel"} -> [m EXCEPT !.lastAction = tag]
      [] state = "search" ->
           [m EXCEPT !.lastAction = tag, !.searchCount = @ + 1]
      [] state = "watchingVideo" ->
           [m EXCEPT !.lastAction = tag, !.videoWatchCount = @ + 1]
      [] OTHER -> m

\* The machine settles: the eventless (always) transitions of checkingLimits
\* and decidingNext are taken in the same step as the transition entering
\* them.  next is the target decidingNext selects.
Settle(m, target, next, s, t) ==
    LET afterDeciding ==
            IF target = "decidingNext"
            THEN [state |-> next,
                  reason |-> IF next = "terminating" THEN "userDecision"
                             ELSE m.endReason]
            ELSE [state |-> target, reason |-> m.endReason]
        afterChecking ==
            IF afterDeciding.state = "checkingLimits"
            THEN [state |-> CheckingLimitsTarget(s, t),
                  reason |-> IF CheckingLimitsTarget(s, t) = "terminating"
                             THEN CheckingLimitsReason(s, t) ELSE afterDeciding.reason]
            ELSE afterDeciding
    IN [m EXCEPT !.state = afterChecking.state, !.endReason = afterChecking.reason]

\* initializing: on START, target browsing (initial checkingLimits), the assign
\* constructs the Session
MStart ==
    /\ machine.state = "initializing"
    /\ session' = NewSession([sessionDuration |-> session.sessionDuration,
                              maxVideos |-> session.maxVideos,
                              idleTimeout |-> session.idleTimeout], now, now)
    /\ machine' = Settle(machine, "checkingLimits", "checkingLimits", session', now)
    /\ lastOp' = "constructor"
    /\ UNCHANGED <<now, limits, orchVars, randomVars>>

\* the service invoked by the current state resolves
MServiceDone ==
    /\ machine.state \in InvokingStates
    /\ \E tag \in ServiceTags :
          LET m == OnDoneAssign(machine, machine.state, tag)
          IN \E next \in DecidingNextTargets(m.lastAction) :
                machine' = Settle(m, OnDoneTarget(machine.state), next, session, now)
    /\ UNCHANGED <<now, session, limits, lastOp, orchVars, randomVars>>

NextMachine == Tick \/ MStart \/ MServiceDone

SpecMachine == Init /\ [][NextMachine]_vars

\* The machine under a clock that advances and services that resolve
SpecMachineLive ==
    /\ Init
    /\ [][NextMachine]_vars
    /\ WF_vars(Tick)
    /\ WF_vars(MStart)
    /\ WF_vars(MServiceDone)

----------------------------------------------------------------------------
(* The dispatch loop of src/src/index.ts and the phase controllers it calls *)
(*                                                                         *)
(* handleNextAction and the handle* functions call each other recursively. *)
(* A call in tail position (nothing but break / the end of the function    *)
(* follows it) leaves no frame; stack holds the frames that still have     *)
(* code to run when their callee returns.                                  *)

\* randomInt(min, max) of utils/random: an integer of min .. max
randomInt(min, max) == min .. max

\* The planned watch durations (seconds) tried for viewVideoContent, the
\* lengths of a continuous segment and
\* config.skipTime
WatchDurations == {0, 20, 40}
SegmentLengths == randomInt(10, 30)
SkipTimes == {10}

MinTakesLarger(a, b) == IF a <= b THEN b ELSE a

Min(a, b) == IF a <= b THEN a ELSE b

\* a controller hands its result to the caller
Result(tag, reason) == [action |-> tag, reason |-> reason]

\* switch (actionResult.action) of handleNextAction, for the cases that call
\* one handler whatever is drawn: the position the loop continues at
DispatchWatchGoesHome(action) ==
    CASE action = "watchVideo" -> "handleHomePage"
      [] action = "search" -> "handleSearch"
      [] action = "goToHome" -> "handleHomePage"
      [] action = "viewChannel" -> "handleViewChannel"
      [] action = "endSession" -> "return"
      [] action = "error" -> "handleHomePage"
      [] OTHER -> "handleHomePage"

Dispatch(action) ==
    CASE action = "watchVideo" -> "handleWatchVideo"
      [] action = "search" -> "handleSearch"
      [] action = "goToHome" -> "handleHomePage"
      [] action = "viewChannel" -> "handleViewChannel"
      [] action = "endSession" -> "return"
      [] action = "error" -> "handleHomePage"
      [] OTHER -> "handleHomePage"

\* the case labels of the switch of handleNextAction
DispatchedTags ==
    {"watchVideo", "search", "goToHome", "endHomeBrowsing", "finishSearch",
     "viewChannel", "endSession", "error"}

\* case "finishSearch": probabilityCheck(70) ? handleHomePage : handleSearch
FinishSearchTarget(r) ==
    IF probabilityCheck(70, r) THEN "handleHomePage" ELSE "handleSearch"

\* case "endHomeBrowsing" has no break after its if / else: when the handler
\* it awaited returns, control falls through into case "finishSearch"
EndHomeBrowsingFallsThrough == <<"finishSearch">>

\* main, up to the first handleHomePage(): launching the browser may throw
MainStart ==
    /\ pc = "main"
    /\ \/ pc' = "handleHomePage" /\ failed' = failed
       \/ pc' = "fatal" /\ failed' = TRUE
    /\ UNCHANGED <<now, session, limits, lastOp, stack, actionResult, phases,
                   homeAlwaysWatch, ended, loop, summary, machine, config, overrides, output, floating, randomVars>>

\* A controller's catch block: saveScreenshot, then return {action: "error"};
\* saveScreenshot itself may throw, and the exception then reaches main.
CatchWithScreenshot(next) ==
    /\ failed' = TRUE
    /\ \/ actionResult' = Result("error", NoReason) /\ pc' = next
       \/ actionResult' = actionResult /\ pc' = "fatal"

\* handleHomePage: navigateToHome, browseHomePage up to its scroll loop
HandleHomePage ==
    /\ pc = "handleHomePage"
    /\ Len(phases) < MaxPhases
    /\ phases' = Append(phases, "Home")
    /\ \/ /\ CatchWithScreenshot("handleNextAction")
          /\ homeAlwaysWatch' = FALSE
          /\ UNCHANGED <<session, loop>>
       \/ /\ session' = updateActivity(session, now)
          /\ failed' = failed
          /\ \E r1, r2 \in RandomValues :
                IF probabilityCheck(config.home.homeToSearch, r1)
                THEN /\ actionResult' = Result("search", NoReason)
                     /\ pc' = "handleNextAction"
                     /\ homeAlwaysWatch' = FALSE
                     /\ loop' = loop
                ELSE IF probabilityCheck(config.home.homeToVideo, r2)
                THEN /\ actionResult' = Result("watchVideo", NoReason)
                     /\ pc' = "handleNextAction"
                     /\ homeAlwaysWatch' = homeAlwaysWatch
                     /\ loop' = loop
                ELSE /\ \E scrollCount \in randomInt(3, 10) :
                           loop' = [NoLoop EXCEPT !.n = scrollCount]
                     /\ pc' = "homeScroll"
                     /\ UNCHANGED <<actionResult, homeAlwaysWatch>>
    /\ UNCHANGED <<now, limits, lastOp, stack, ended, summary, machine, config, overrides, output, floating, randomVars>>

\* What one pass of the scroll loop of browseHomePage decides before its
\* checkLimits: a result tag, or "next" (go on to checkLimits)
HomeScrollOutcomes(cfg) ==
    LET paused == {probabilityCheck(cfg.stopScrollingToWatchVideo, r) : r \in RandomValues}
        toSearch == {probabilityCheck(cfg.homeVideoToSearch, r) : r \in RandomValues}
        click == {probabilityCheck(cfg.clickHomeVideo, r) : r \in RandomValues}
        endBrowsing == {probabilityCheck(cfg.endHomeBrowsing, r) : r \in RandomValues}
        onThumbnail ==
            (IF TRUE \in toSearch THEN {"search"} ELSE {})
              \cup (IF TRUE \in click THEN {"watchVideo"} ELSE {})
              \cup (IF FALSE \in click THEN {"endHomeBrowsing"} ELSE {})
    IN (IF TRUE \in paused THEN onThumbnail \cup {"next"} ELSE {})
         \cup (IF FALSE \in paused
               THEN (IF TRUE \in endBrowsing THEN {"endHomeBrowsing"} ELSE {})
                      \cup (IF FALSE \in endBrowsing THEN {"next"} ELSE {})
               ELSE {})

\* what browseHomePage decides after the scroll loop
HomeAfterScroll(cfg, r1, r2) ==
    IF probabilityCheck(cfg.homeToSearch, r1) THEN "search"
    ELSE IF probabilityCheck(cfg.homeToVideo, r2) THEN "watchVideo"
    ELSE "endHomeBrowsing"

\* browseHomePage: one pass of the scroll loop, or the decision after it
HomeScroll ==
    /\ pc = "homeScroll"
    /\ \/ /\ loop.n = 0
          /\ \E r1, r2 \in RandomValues :
                actionResult' = Result(HomeAfterScroll(config.home, r1, r2), NoReason)
          /\ pc' = "handleNextAction"
          /\ homeAlwaysWatch' = (homeAlwaysWatch /\ actionResult'.action = "watchVideo")
          \* this.playRandomVideo() is called without await
          /\ floating' = IF actionResult'.action = "watchVideo" THEN "started"
                         ELSE floating
          /\ UNCHANGED <<session, failed, loop>>
       \/ /\ loop.n > 0
          /\ CatchWithScreenshot("handleNextAction")
          /\ homeAlwaysWatch' = FALSE
          /\ UNCHANGED <<session, loop, floating>>
       \/ /\ loop.n > 0
          /\ floating' = floating
          /\ \E outcome \in HomeScrollOutcomes(config.home) :
                IF outcome # "next"
                THEN /\ actionResult' = Result(outcome, NoReason)
                     /\ pc' = "handleNextAction"
                     /\ homeAlwaysWatch' = (homeAlwaysWatch /\ outcome = "watchVideo")
                     /\ UNCHANGED <<session, loop>>
                ELSE LET v == checkLimits(session, now)
                     IN /\ session' = v.self
                        /\ IF v.ret.exceedsLimit
                           THEN /\ actionResult' = Result("endSession", v.ret.reason)
                                /\ pc' = "handleNextAction"
                                /\ homeAlwaysWatch' = FALSE
                                /\ loop' = loop
                           ELSE /\ loop' = [loop EXCEPT !.n = @ - 1]
                                /\ UNCHANGED <<actionResult, pc, homeAlwaysWatch>>
          /\ failed' = failed
    /\ UNCHANGED <<now, limits, lastOp, stack, phases, ended, summary, machine, config, overrides,
                   output, randomVars>>

\* playRandomVideo, started by browseHomePage without await, runs to its end
\* (thumbnails, scroll into view, hover, click; its errors are caught) while
\* the dispatch loop goes on
PlayRandomVideoSettles ==
    /\ floating = "started"
    /\ floating' = "none"
    /\ UNCHANGED <<now, session, limits, lastOp, pc, stack, actionResult, phases,
                   homeAlwaysWatch, ended, failed, loop, summary, machine, config, overrides,
                   output, randomVars>>

\* handleNextAction: updateActivity, checkLimits, then the switch
HandleNextAction ==
    /\ pc = "handleNextAction"
    /\ LET v == checkLimits(updateActivity(session, now), now)
       IN /\ session' = v.self
          /\ limits' = v.ret
          /\ IF v.ret.exceedsLimit
             THEN /\ ended' = TRUE
                  /\ pc' = "return"
                  /\ stack' = stack
             ELSE IF actionResult.action = "endHomeBrowsing"
             THEN \E randomAction \in RandomValues :
                     IF randomAction < 40
                     THEN /\ Len(stack) + Len(EndHomeBrowsingFallsThrough) <= MaxDepth
                          /\ stack' = stack \o EndHomeBrowsingFallsThrough
                          /\ pc' = "handleSearch"
                          /\ ended' = ended
                     ELSE IF randomAction < 80
                     THEN /\ Len(stack) + Len(EndHomeBrowsingFallsThrough) <= MaxDepth
                          /\ stack' = stack \o EndHomeBrowsingFallsThrough
                          /\ pc' = "handleHomePage"
                          /\ ended' = ended
                     ELSE /\ ended' = TRUE
                          /\ pc' = "return"
                          /\ stack' = stack
             ELSE IF actionResult.action = "finishSearch"
             THEN /\ \E r \in RandomValues : pc' = FinishSearchTarget(r)
                  /\ UNCHANGED <<ended, stack>>
             ELSE /\ pc' = Dispatch(actionResult.action)
                  /\ ended' = (ended \/ actionResult.action = "endSession")
                  /\ stack' = stack
    /\ UNCHANGED <<now, lastOp, actionResult, phases, homeAlwaysWatch, failed, loop,
                   summary, machine, config, overrides, output, floating, randomVars>>

\* A handler chain has returned: the innermost pending frame runs the code
\* that follows its call; with no frame left handleHomePage returns to main.
Return ==
    /\ pc = "return"
    /\ IF stack = <<>>
       THEN pc' = "summary" /\ stack' = stack
       ELSE /\ stack' = SubSeq(stack, 1, Len(stack) - 1)
            /\ \E r \in RandomValues : pc' = FinishSearchTarget(r)
    /\ UNCHANGED <<now, session, limits, lastOp, actionResult, phases, homeAlwaysWatch,
                   ended, failed, loop, summary, machine, config, overrides, output, floating, randomVars>>

\* handleSearch: navigateToSearch, performSearch up to browseSearchResults
HandleSearch ==
    /\ pc = "handleSearch"
    /\ Len(phases) < MaxPhases
    /\ phases' = Append(phases, "Search")
    /\ \/ /\ CatchWithScreenshot("handleNextAction")
          /\ \/ session' = session
             \/ session' = updateActivity(session, now)
       \/ /\ session' = incrementSearches(updateActivity(session, now))
          /\ \/ CatchWithScreenshot("handleNextAction")
             \/ /\ pc' = "browseSearchResults"
                /\ UNCHANGED <<actionResult, failed>>
    /\ UNCHANGED <<now, limits, lastOp, stack, homeAlwaysWatch, ended, loop, summary,
                   machine, config, overrides, output, floating, randomVars>>

\* the result tags one pass of the loop of browseSearchResults can return,
\* "continue" (another pass), and the tags returned after a break
SearchPassOutcomes ==
    {"watchVideo", "search", "continue", "goToHome", "finishSearch"}

\* browseSearchResults: one pass of while (true)
BrowseSearchResults ==
    /\ pc = "browseSearchResults"
    /\ LET v == checkLimits(updateActivity(session, now), now)
       IN /\ session' = v.self
          /\ IF v.ret.exceedsLimit
             THEN /\ actionResult' = Result("endSession", v.ret.reason)
                  /\ pc' = "handleNextAction"
                  /\ failed' = failed
             ELSE \/ CatchWithScreenshot("handleNextAction")
                  \/ /\ \E outcome \in SearchPassOutcomes :
                           IF outcome = "continue"
                           THEN UNCHANGED <<actionResult, pc>>
                           ELSE /\ actionResult' = Result(outcome, NoReason)
                                /\ pc' = "handleNextAction"
                     /\ failed' = failed
    /\ UNCHANGED <<now, limits, lastOp, stack, phases, homeAlwaysWatch, ended, loop,
                   summary, machine, config, overrides, output, floating, randomVars>>

\* handleWatchVideo: watchVideo up to viewVideoContent
HandleWatchVideo ==
    /\ pc = "handleWatchVideo"
    /\ Len(phases) < MaxPhases
    /\ phases' = Append(phases, "Video")
    /\ \/ /\ CatchWithScreenshot("watchResult")
          /\ UNCHANGED <<session, loop>>
       \/ /\ session' = incrementVideosWatched(updateActivity(session, now))
          /\ \/ CatchWithScreenshot("watchResult") /\ loop' = loop
             \/ /\ \E watchDuration \in WatchDurations :
                      loop' = [NoLoop EXCEPT !.watchDuration = watchDuration]
                /\ pc' = "viewVideoContent"
                /\ UNCHANGED <<actionResult, failed>>
    /\ UNCHANGED <<now, limits, lastOp, stack, homeAlwaysWatch, ended, summary,
                   machine, config, overrides, output, floating, randomVars>>

\* viewVideoContent: one pass of while (watchedTime < watchDuration), or the
\* result after the loop
ViewVideoContent ==
    /\ pc = "viewVideoContent"
    /\ IF loop.watchedTime < loop.watchDuration
       THEN LET v == checkLimits(session, now)
            IN IF v.ret.exceedsLimit
               THEN /\ session' = v.self
                    /\ actionResult' = Result("endSession", v.ret.reason)
                    /\ pc' = "watchResult"
                    /\ UNCHANGED <<failed, loop>>
               ELSE /\ session' = updateActivity(v.self, now)
                    /\ \E segment \in SegmentLengths :
                         LET watched ==
                               loop.watchedTime
                                 + Min(segment, loop.watchDuration - loop.watchedTime)
                         IN IF watched < loop.watchDuration
                            THEN \/ \* interestingSection, continueWatching
                                    /\ loop' = [loop EXCEPT !.watchedTime = watched]
                                    /\ UNCHANGED <<actionResult, pc, failed>>
                                 \/ \* boringSection
                                    /\ \E skipAmount \in SkipTimes :
                                         loop' = [loop EXCEPT !.watchedTime =
                                                    Min(loop.watchDuration, watched + skipAmount)]
                                    /\ UNCHANGED <<actionResult, pc, failed>>
                                 \/ \* tabInactive
                                    /\ loop' = [loop EXCEPT !.watchedTime = watched]
                                    /\ pc' = "tabInactive"
                                    /\ UNCHANGED <<actionResult, failed>>
                                 \/ \* a click or key press throws
                                    /\ CatchWithScreenshot("watchResult")
                                    /\ loop' = [loop EXCEPT !.watchedTime = watched]
                            ELSE /\ loop' = [loop EXCEPT !.watchedTime = watched]
                                 /\ UNCHANGED <<actionResult, pc, failed>>
       ELSE /\ \E tag \in {"videoCompleted", "videoPartiallyWatched"} :
                  actionResult' = Result(tag, NoReason)
            /\ pc' = "watchResult"
            /\ UNCHANGED <<session, failed, loop>>
    /\ UNCHANGED <<now, limits, lastOp, stack, phases, homeAlwaysWatch, ended, summary,
                   machine, config, overrides, output, floating, randomVars>>

\* handleTabInactive, after its delay: checkLimits, reason idle ends the video
TabInactive ==
    /\ pc = "tabInactive"
    /\ LET idleCheck == checkLimits(session, now)
       IN IF idleCheck.ret.exceedsLimit /\ idleCheck.ret.reason = "idle"
          THEN /\ session' = idleCheck.self
               /\ actionResult' = Result("endSession", "idle")
               /\ pc' = "watchResult"
          ELSE /\ session' = updateActivity(idleCheck.self, now)
               /\ pc' = "viewVideoContent"
               /\ actionResult' = actionResult
    /\ UNCHANGED <<now, limits, lastOp, stack, phases, homeAlwaysWatch, ended, failed,
                   loop, summary, machine, config, overrides, output, floating, randomVars>>

\* handleWatchVideo, after watchVideo has returned watchResult
WatchResult ==
    /\ pc = "watchResult"
    /\ pc' = IF actionResult.action = "videoCompleted" THEN "decideInteractions"
             ELSE "return"
    /\ ended' = (ended \/ actionResult.action = "endSession")
    /\ UNCHANGED <<now, session, limits, lastOp, stack, actionResult, phases,
                   homeAlwaysWatch, failed, loop, summary, machine, config, overrides, output, floating, randomVars>>

\* decideInteractions: each interaction that is drawn and performed is
\* recorded; an exception, wherever it is thrown, ends it with every flag
\* false; loop.result is the value returned
DecideInteractions ==
    /\ pc = "decideInteractions"
    /\ \E liked, commented, subscribed, thrown \in BOOLEAN :
          LET s1 == IF liked THEN recordInteraction(session, "likes") ELSE session
              s2 == IF commented THEN recordInteraction(s1, "comments") ELSE s1
              s3 == IF subscribed THEN recordInteraction(s2, "subscribes") ELSE s2
          IN /\ session' = s3
             /\ failed' = (failed \/ thrown)
             /\ loop' = [loop EXCEPT !.result =
                           IF thrown THEN NoInteraction
                           ELSE [liked |-> liked, commented |-> commented,
                                 subscribed |-> subscribed]]
    /\ pc' = "decideNextAction"
    /\ UNCHANGED <<now, limits, lastOp, stack, actionResult, phases, homeAlwaysWatch,
                   ended, summary, machine, config, overrides, output, floating, randomVars>>

\* the tags the handlers of decideNextAction return
NextActionTags ==
    {"watchVideo", "newSearch", "search", "goToHome", "watchSuggested", "viewChannel"}

\* decideNextAction: checkLimits, updateActivity, the weighted choice
DecideNextAction ==
    /\ pc = "decideNextAction"
    /\ pc' = "handleNextAction"
    /\ \/ /\ actionResult' = Result("error", NoReason)
          /\ failed' = TRUE
          /\ session' = session
       \/ LET v == checkLimits(session, now)
          IN /\ failed' = failed
             /\ IF v.ret.exceedsLimit
                THEN /\ session' = v.self
                     /\ actionResult' = Result("endSession", v.ret.reason)
                ELSE /\ session' = updateActivity(v.self, now)
                     /\ \/ \E tag \in NextActionTags :
                              actionResult' = Result(tag, NoReason)
                        \/ actionResult' = Result("endSession", "userDecision")
    \* the locals of viewVideoContent and decideInteractions are gone
    /\ loop' = NoLoop
    /\ UNCHANGED <<now, limits, lastOp, stack, phases, homeAlwaysWatch, ended,
                   summary, machine, config, overrides, output, floating, randomVars>>

\* handleViewChannel: browseChannel up to browseChannelVideos
HandleViewChannel ==
    /\ pc = "handleViewChannel"
    /\ Len(phases) < MaxPhases
    /\ phases' = Append(phases, "Channel")
    /\ \/ /\ CatchWithScreenshot("handleNextAction")
          /\ \/ session' = session
             \/ session' = updateActivity(session, now)
          /\ loop' = loop
       \/ /\ session' = updateActivity(session, now)
          /\ \E maxScrolls \in randomInt(2, 5) : loop' = [NoLoop EXCEPT !.n = maxScrolls]
          /\ pc' = "browseChannelVideos"
          /\ UNCHANGED <<actionResult, failed>>
    /\ UNCHANGED <<now, limits, lastOp, stack, homeAlwaysWatch, ended, summary,
                   machine, config, overrides, output, floating, randomVars>>

\* the tags browseChannelVideos and leaveChannel return
ChannelTags == {"watchVideo", "search", "goToHome"}

\* browseChannelVideos: one pass of the scroll loop, or leaveChannel after it
BrowseChannelVideos ==
    /\ pc = "browseChannelVideos"
    /\ IF loop.n = 0
       THEN /\ session' = session
            /\ \/ CatchWithScreenshot("handleNextAction")
               \/ /\ \E tag \in ChannelTags : actionResult' = Result(tag, NoReason)
                  /\ pc' = "handleNextAction"
                  /\ failed' = failed
            /\ loop' = loop
       ELSE LET v == checkLimits(updateActivity(session, now), now)
            IN /\ session' = v.self
               /\ IF v.ret.exceedsLimit
                  THEN /\ actionResult' = Result("endSession", v.ret.reason)
                       /\ pc' = "handleNextAction"
                       /\ UNCHANGED <<failed, loop>>
                  ELSE \/ CatchWithScreenshot("handleNextAction") /\ loop' = loop
                       \/ /\ \E tag \in ChannelTags : actionResult' = Result(tag, NoReason)
                          /\ pc' = "handleNextAction"
                          /\ UNCHANGED <<failed, loop>>
                       \/ /\ loop' = [loop EXCEPT !.n = @ - 1]
                          /\ UNCHANGED <<actionResult, pc, failed>>
    /\ UNCHANGED <<now, limits, lastOp, stack, phases, homeAlwaysWatch, ended, summary,
                   machine, config, overrides, output, floating, randomVars>>

\* main, after handleHomePage() has returned: the summary, the final
\* screenshot, closing the browser
\* main after handleHomePage has returned: the summary is logged, then the
\* final screenshot and browserManager.close(); either of the two may throw
MainSummary ==
    /\ pc = "summary"
    /\ summary' = generateSessionSummary(session, now)
    /\ \/ /\ pc' = "done" /\ failed' = failed
          /\ output' = [output EXCEPT !.reportAttempted = TRUE, !.reportSaved = TRUE,
                                      !.closeAttempted = TRUE, !.closed = TRUE,
                                      !.exit = "completed"]
       \/ /\ pc' = "fatal" /\ failed' = TRUE
          /\ \E closeAttempted \in BOOLEAN :
                output' = [output EXCEPT !.reportAttempted = TRUE, !.reportSaved = TRUE,
                                        !.closeAttempted = closeAttempted]
    /\ UNCHANGED <<now, session, limits, lastOp, stack, actionResult, phases,
                   homeAlwaysWatch, ended, loop, machine, config, overrides, floating, randomVars>>

\* the catch block of main: browserManager.close() in its own try (whether
\* it succeeds is seen by nobody), then process.exit(1)
MainCatch ==
    /\ pc = "fatal"
    /\ pc' = "exit"
    /\ output' = [output EXCEPT !.closeAttempted = TRUE, !.exit = "exit1"]
    /\ UNCHANGED <<now, session, limits, lastOp, stack, actionResult, phases,
                   homeAlwaysWatch, ended, failed, loop, summary, machine, config, overrides, floating,
                   randomVars>>

Next ==
    \/ Tick
    \/ MainStart
    \/ HandleHomePage
    \/ HomeScroll
    \/ PlayRandomVideoSettles
    \/ HandleNextAction
    \/ Return
    \/ HandleSearch
    \/ BrowseSearchResults
    \/ HandleWatchVideo
    \/ ViewVideoContent
    \/ TabInactive
    \/ WatchResult
    \/ DecideInteractions
    \/ DecideNextAction
    \/ HandleViewChannel
    \/ BrowseChannelVideos
    \/ MainSummary
    \/ MainCatch

Spec == Init /\ [][Next]_vars

----------------------------------------------------------------------------
(* The random helpers and their telemetry: utils/random (the head of         *)
(* utils/logger.ts in this tree), utils/enhanced-random.ts,                 *)
(* utils/probability-helper.ts, EnhancedLogger and the overrides of the      *)
(* enhanced controllers                                                      *)

MaxEntries == 1

\* the percentages a plain check is tried with, and the draws tried with
\* them, with the weighted choices and with the logged checks
Percentages == {0, 50, 100}
Draws == {0, 50, 99}
LoggedDraws == {0, 99}

\* EnhancedLogger.logProbabilityCheck: one entry pushed onto logEntries
logProbabilityCheck(entries, functionName, probability, actualValue, result, category, configName, configSection) ==
    Append(entries,
           [type |-> "random_value", category |-> category,
            functionName |-> functionName, result |-> result,
            probability |-> probability, actualValue |-> actualValue,
            configName |-> configName, section |-> configSection])

\* probabilityCheck of utils/enhanced-random.ts: the result and the log
enhancedProbabilityCheck(entries, percentage, configName, configProperty, randomValue) ==
    LET result == randomValue <= percentage
    IN [ret |-> result,
        log |-> logProbabilityCheck(entries, "probabilityCheck", percentage,
                                    randomValue, result, "probability",
                                    configName, configProperty)]

\* checkProbability of utils/probability-helper.ts
checkProbability(entries, value, configName, propertyName, randomValue) ==
    enhancedProbabilityCheck(entries, value, configName, propertyName, randomValue)

\* the properties the override of EnhancedChannelController.browseChannel
\* compares the percentage with, in its order, and the one of
\* EnhancedVideoController.decideInteractions
ChannelProperties ==
    <<"channelToVideo", "channelToSearch", "channelToHome", "viewChannelInfo",
      "viewChannelVideos", "selectChannelVideo", "switchChannelTab", "leaveChannel">>

InteractionProperties ==
    <<"likeVideo", "commentVideo", "subscribeChannel", "enableNotifications",
      "editComment">>

Range(seq) == {seq[i] : i \in DOMAIN seq}

\* the if / else-if chain of the overrides: the first property of the list
\* whose configured value equals the percentage, "unknown" without one
GuessProperty(properties, cfg, percentage) ==
    LET hits == {i \in DOMAIN properties : cfg[properties[i]] = percentage}
    IN IF hits = {} THEN "unknown"
       ELSE properties[CHOOSE i \in hits : \A j \in hits : i <= j]

\* the Channel and Video configurations tried: two properties hold the same
\* value, every other value is held by one property only
ChannelConfigs ==
    {[channelToVideo |-> 50, channelToSearch |-> 20, channelToHome |-> 30,
      viewChannelInfo |-> 40, viewChannelVideos |-> 60, selectChannelVideo |-> 70,
      switchChannelTab |-> 80, leaveChannel |-> 50]}

InteractionConfigs ==
    {[likeVideo |-> 10, commentVideo |-> 3, subscribeChannel |-> 3,
      enableNotifications |-> 50, editComment |-> 20]}

\* what a call leaves behind for inspection
Call(fn, percentage, randomValue, result, property) ==
    [fn |-> fn, percentage |-> percentage, randomValue |-> randomValue,
     result |-> result, property |-> property, weights |-> <<>>,
     normalized |-> <<>>, selected |-> "none"]

\* probabilityCheck(percentage) of utils/random, as the controllers of
\* index.ts call it: nothing is logged
UnloggedProbabilityCheck ==
    /\ \E percentage \in Percentages, randomValue \in Draws :
          call' = Call("probabilityCheck", percentage, randomValue,
                       probabilityCheck(percentage, randomValue), "none")
    /\ UNCHANGED <<now, session, limits, lastOp, orchVars, machine, logEntries>>

\* checkProbability(config.<property>, "Channel", "<property>") as
\* ChannelController calls it: the caller names the property
LabelledProbabilityCheck ==
    /\ Len(logEntries) < MaxEntries
    /\ \E cfg \in ChannelConfigs, property \in Range(ChannelProperties),
          randomValue \in LoggedDraws :
          LET r == checkProbability(logEntries, cfg[property], "Channel", property,
                                    randomValue)
          IN /\ logEntries' = r.log
             /\ call' = Call("checkProbability", cfg[property], randomValue, r.ret,
                             property)
    /\ UNCHANGED <<now, session, limits, lastOp, orchVars, machine>>

\* global.probabilityCheck as EnhancedChannelController.browseChannel
\* installs it, called for one property of the Channel configuration
ChannelOverrideCheck ==
    /\ Len(logEntries) < MaxEntries
    /\ \E cfg \in ChannelConfigs, property \in Range(ChannelProperties),
          randomValue \in LoggedDraws :
          LET percentage == cfg[property]
              propertyName == GuessProperty(ChannelProperties, cfg, percentage)
              r == checkProbability(logEntries, percentage, "Channel", propertyName,
                                    randomValue)
          IN /\ logEntries' = r.log
             /\ call' = Call("channelOverride", percentage, randomValue, r.ret, property)
    /\ UNCHANGED <<now, session, limits, lastOp, orchVars, machine>>

\* global.probabilityCheck as EnhancedVideoController.decideInteractions
\* installs it
InteractionOverrideCheck ==
    /\ Len(logEntries) < MaxEntries
    /\ \E cfg \in InteractionConfigs, property \in Range(InteractionProperties),
          randomValue \in LoggedDraws :
          LET percentage == cfg[property]
              propertyName == GuessProperty(InteractionProperties, cfg, percentage)
              r == checkProbability(logEntries, percentage, "Video", propertyName,
                                    randomValue)
          IN /\ logEntries' = r.log
             /\ call' = Call("interactionOverride", percentage, randomValue, r.ret,
                             property)
    /\ UNCHANGED <<now, session, limits, lastOp, orchVars, machine>>

RECURSIVE SumSeq(_)
SumSeq(seq) == IF seq = <<>> THEN 0 ELSE seq[1] + SumSeq(Tail(seq))

\* The normalisation of viewVideoContent and decideNextAction: every
\* probability is replaced by probability / totalProbability * 100, kept here
\* as the fraction num / den (0 / 0, NaN, when the total is 0)
normalizeWithoutPercent(weights) ==
    [i \in DOMAIN weights |-> [num |-> weights[i], den |-> SumSeq(weights)]]

normalize(weights) ==
    [i \in DOMAIN weights |-> [num |-> weights[i] * 100, den |-> SumSeq(weights)]]

\* The weighted exclusive choice of viewVideoContent and decideNextAction:
\* every weight is replaced by weight / total * 100, and the first option
\* whose running sum reaches the draw is selected.  With a total of 0 every
\* normalised weight is NaN (0 / 0), no comparison with NaN succeeds and the
\* initial value of the selection is kept.
weightedChoiceLastReached(options, weights, initial, randomValue) ==
    LET total == SumSeq(weights)
        reached == {i \in DOMAIN options :
                      randomValue * total <= 100 * SumSeq(SubSeq(weights, 1, i))}
    IN IF total = 0 \/ reached = {} THEN initial
       ELSE options[CHOOSE i \in reached : \A j \in reached : i >= j]

weightedChoiceStrict(options, weights, initial, randomValue) ==
    LET total == SumSeq(weights)
        reached == {i \in DOMAIN options :
                      randomValue * total < 100 * SumSeq(SubSeq(weights, 1, i))}
    IN IF total = 0 \/ reached = {} THEN initial
       ELSE options[CHOOSE i \in reached : \A j \in reached : i <= j]

weightedChoice(options, weights, initial, randomValue) ==
    LET total == SumSeq(weights)
        reached == {i \in DOMAIN options :
                      randomValue * total <= 100 * SumSeq(SubSeq(weights, 1, i))}
    IN IF total = 0 \/ reached = {} THEN initial
       ELSE options[CHOOSE i \in reached : \A j \in reached : i <= j]

BehaviourOptions ==
    <<"interestingSection", "boringSection", "tabInactive", "continueWatching">>

NextActionOptions ==
    <<"watchSuggested", "backToSearchResults", "newSearch", "viewCurrentChannel",
      "endSessionEarly">>

\* the weights tried: all zero, a spread, everything on one option, a
\* total that divides none of the weights, two options at 50 each
BehaviourWeights ==
    {<<0, 0, 0, 0>>, <<50, 30, 10, 10>>, <<0, 0, 100, 0>>, <<1, 2, 3, 1>>,
     <<50, 50, 0, 0>>}
NextActionWeights ==
    {<<0, 0, 0, 0, 0>>, <<40, 20, 20, 10, 10>>, <<0, 100, 0, 0, 0>>, <<1, 1, 2, 1, 1>>}

\* viewVideoContent: the choice of the behaviour after a segment
BehaviourChoice ==
    /\ \E weights \in BehaviourWeights, randomValue \in Draws :
          call' = [Call("behaviourChoice", 0, randomValue, FALSE, "none")
                     EXCEPT !.weights = weights,
                            !.normalized = normalize(weights),
                            !.selected = weightedChoice(BehaviourOptions, weights,
                                                        "continueWatching", randomValue)]
    /\ UNCHANGED <<now, session, limits, lastOp, orchVars, machine, logEntries>>

\* decideNextAction: the choice of the next action
NextActionChoice ==
    /\ \E weights \in NextActionWeights, randomValue \in Draws :
          call' = [Call("nextActionChoice", 0, randomValue, FALSE, "none")
                     EXCEPT !.weights = weights,
                            !.normalized = normalize(weights),
                            !.selected = weightedChoice(NextActionOptions, weights,
                                                        "watchSuggested", randomValue)]
    /\ UNCHANGED <<now, session, limits, lastOp, orchVars, machine, logEntries>>

NextRandom ==
    \/ UnloggedProbabilityCheck
    \/ LabelledProbabilityCheck
    \/ ChannelOverrideCheck
    \/ InteractionOverrideCheck
    \/ BehaviourChoice
    \/ NextActionChoice

\* the helpers on their own: one session, one Home configuration
InitRandom ==
    /\ InitSession({CHOOSE c \in RunConfigs : c.maxVideos = 1})
    /\ session.lastActivityTime = session.startTime
    /\ InitOrchestrator({CHOOSE h \in HomeConfigs : h.homeToVideo = 100})
    /\ InitMachine
    /\ InitLogger

SpecRandom == InitRandom /\ [][NextRandom]_vars

----------------------------------------------------------------------------
(* The recorders under an arbitrary sequence of record operations:           *)
(* Session.recordRandom / recordError / recordActivities /                   *)
(* recordStateTransition and EnhancedLogger.logStateTransition               *)

MaxRecords == 2

\* EnhancedLogger.logStateTransition: one entry pushed onto logEntries
logStateTransition(entries, fromState, toState) ==
    Append(entries, [type |-> "state_transition", fromState |-> fromState,
                     toState |-> toState])

\* the entries recorded so far, in the Session and in the logger
Recorded == TotalLog(session) + Len(logEntries)

\* the labels and states the recorders are called with
RecordSources == {"home", "Search"}
RecordTransitions == {<<"Home", "Search">>, <<"Search", "Video">>}

TRecordRandom ==
    /\ Recorded < MaxRecords
    /\ \E configName \in {"probPauseOnVideo", "probHomeVideoGood"}, actualValue \in Draws :
          session' = recordRandom(session, 50, configName, actualValue)
    /\ lastOp' = "recordRandom"
    /\ UNCHANGED <<now, limits, orchVars, machine, randomVars>>

TRecordError ==
    /\ Recorded < MaxRecords
    /\ \E source \in RecordSources :
          session' = recordError(session, "e", "browseHomePage", source)
    /\ lastOp' = "recordError"
    /\ UNCHANGED <<now, limits, orchVars, machine, randomVars>>

TRecordActivities ==
    /\ Recorded < MaxRecords
    /\ \E action \in {"CheckNoti", "Search"}, source \in RecordSources :
          session' = recordActivities(session, action, source)
    /\ lastOp' = "recordActivities"
    /\ UNCHANGED <<now, limits, orchVars, machine, randomVars>>

TRecordStateTransition ==
    /\ Recorded < MaxRecords
    /\ \E t \in RecordTransitions :
          session' = recordStateTransition(session, t[1], t[2])
    /\ lastOp' = "recordStateTransition"
    /\ UNCHANGED <<now, limits, orchVars, machine, randomVars>>

TLogStateTransition ==
    /\ Recorded < MaxRecords
    /\ \E t \in RecordTransitions :
          logEntries' = logStateTransition(logEntries, t[1], t[2])
    /\ lastOp' = "logStateTransition"
    /\ UNCHANGED <<now, session, limits, orchVars, machine, call>>

NextTelemetry ==
    \/ TRecordRandom
    \/ TRecordError
    \/ TRecordActivities
    \/ TRecordStateTransition
    \/ TLogStateTransition

SpecTelemetry == InitRandom /\ [][NextTelemetry]_vars

----------------------------------------------------------------------------
(* main of src/src/index-enhanced.ts: what it logs, flushes and releases,    *)
(* on the way through and in its catch block.  The session itself            *)
(* (handleHomePage) is the sequence of action entries it logs.               *)

\* EnhancedLogger.logAction / logConfig / logSessionInfo / logError: one
\* entry pushed onto logEntries
logAction(entries, action) ==
    Append(entries, [type |-> "action", functionName |-> action])

logConfig(entries, configName) ==
    Append(entries, [type |-> "config", functionName |-> configName])

logSessionInfo(entries, sessionInfo) ==
    Append(entries, [type |-> "event", functionName |-> sessionInfo])

logError(entries, message) ==
    Append(entries, [type |-> "error", functionName |-> message])

\* the entries main logs before handleHomePage
StartupEntries ==
    logAction(
      logAction(
        logSessionInfo(
          logConfig(logAction(<<>>, "startSession"), "AppConfig"),
          "sessionStarted"),
        "browserLaunched"),
      "controllersInitialized")

\* the actions a session logs while it runs, and the runs tried: at most
\* MaxRecords entries
SessionActions == {"handleHomePage", "nextAction", "sessionLimitExceeded"}

SessionRuns ==
    UNION {[1..n -> SessionActions] : n \in 0..MaxRecords}

RECURSIVE LogActions(_, _)
LogActions(entries, actions) ==
    IF actions = <<>> THEN entries
    ELSE LogActions(logAction(entries, actions[1]), Tail(actions))

\* EnhancedLogger.saveHTMLReport / saveRawLogs: the file holds the entries
\* of logEntries at the time of the call
saveHTMLReport(out, entries) ==
    [out EXCEPT !.reportAttempted = TRUE, !.reportSaved = TRUE, !.report = entries]

saveRawLogs(out, entries) ==
    [out EXCEPT !.rawSaved = TRUE, !.rawLogs = entries]

\* main up to the call of handleHomePage: configuration, session, browser,
\* controllers; getConfig or launchPersistent may throw
EnhancedMainStart ==
    /\ pc = "main"
    /\ \/ pc' = "enhancedSession" /\ logEntries' = StartupEntries
       \/ pc' = "enhancedCatch" /\ logEntries' = logAction(<<>>, "startSession")
    /\ UNCHANGED <<now, session, limits, lastOp, stack, actionResult, phases,
                   homeAlwaysWatch, ended, failed, loop, summary, machine, config, overrides, floating,
                   output, call>>

\* await handleHomePage(): the session runs and logs its actions; an
\* exception may escape it
EnhancedSession ==
    /\ pc = "enhancedSession"
    /\ \E run \in SessionRuns : logEntries' = LogActions(logEntries, run)
    /\ pc' \in {"enhancedSummary", "enhancedCatch"}
    /\ UNCHANGED <<now, session, limits, lastOp, stack, actionResult, phases,
                   homeAlwaysWatch, ended, failed, loop, summary, machine, config, overrides, floating,
                   output, call>>

\* steps 6 to 9 of main: the summary is logged, the final screenshot taken,
\* the report generated and the raw logs saved; each file write and the
\* screenshot may throw
EnhancedFlush ==
    /\ pc = "enhancedSummary"
    /\ summary' = generateSessionSummary(session, now)
    /\ logEntries' = logSessionInfo(logEntries, "sessionSummary")
    /\ \/ \* saveScreenshot throws
          /\ pc' = "enhancedCatch"
          /\ output' = output
       \/ \* generateReport throws
          /\ pc' = "enhancedCatch"
          /\ output' = [output EXCEPT !.reportAttempted = TRUE]
       \/ \* saveRawLogs throws
          /\ pc' = "enhancedCatch"
          /\ output' = saveHTMLReport(output, logEntries')
       \/ /\ pc' = "enhancedClose"
          /\ output' = saveRawLogs(saveHTMLReport(output, logEntries'), logEntries')
    /\ UNCHANGED <<now, session, limits, lastOp, stack, actionResult, phases,
                   homeAlwaysWatch, ended, failed, loop, machine, config, overrides, floating, call>>

\* step 10 of main: the browser is closed, then browserClosed and
\* sessionCompleted are logged
EnhancedClose ==
    /\ pc = "enhancedClose"
    /\ \/ /\ pc' = "enhancedCatch"
          /\ output' = [output EXCEPT !.closeAttempted = TRUE]
          /\ logEntries' = logEntries
       \/ /\ pc' = "done"
          /\ output' = [output EXCEPT !.closeAttempted = TRUE, !.closed = TRUE,
                                      !.exit = "completed"]
          /\ logEntries' = logAction(logAction(logEntries, "browserClosed"),
                                     "sessionCompleted")
    /\ UNCHANGED <<now, session, limits, lastOp, stack, actionResult, phases,
                   homeAlwaysWatch, ended, failed, loop, summary, machine, config, overrides, floating,
                   call>>

\* the catch block of main: the error is logged, the report generated in
\* one try, the browser closed in another, then process.exit(1)
EnhancedMainCatch ==
    /\ pc = "enhancedCatch"
    /\ pc' = "exit"
    /\ failed' = TRUE
    /\ LET logged == logError(logEntries, "Fatal error in main process")
       IN \E reportSaved \in BOOLEAN, closed \in BOOLEAN :
            LET flushed == IF reportSaved THEN saveHTMLReport(output, logged)
                           ELSE [output EXCEPT !.reportAttempted = TRUE]
            IN /\ output' = [flushed EXCEPT !.closeAttempted = TRUE,
                                            !.closed = closed, !.exit = "exit1"]
               /\ logEntries' = IF closed THEN logAction(logged, "browserClosedOnError")
                                ELSE logError(logged, "Error closing browser")
    /\ UNCHANGED <<now, session, limits, lastOp, stack, actionResult, phases,
                   homeAlwaysWatch, ended, loop, summary, machine, config, overrides, floating, call>>

NextShutdown ==
    \/ EnhancedMainStart
    \/ EnhancedSession
    \/ EnhancedFlush
    \/ EnhancedClose
    \/ EnhancedMainCatch

SpecShutdown == InitRandom /\ [][NextShutdown]_vars

----------------------------------------------------------------------------
(* browseHomePage of the HomeController that returns IResultState, on its  *)
(* own: the caller invokes it once.  The entries it writes to the          *)
(* session's logs are left out.                                            *)

MaxScrolls == 3

(* The probabilities tried: every one at 50; notifications always checked  *)
(* and a video always paused on; notifications never checked               *)
HomeBrowsingConfigs ==
    {[probCheckNotifications |-> 50, probPauseOnVideo |-> 50, probHomeVideoGood |-> 50,
      probWatchIfGoodHome |-> 50, probWatchIfBadHome |-> 50],
     [probCheckNotifications |-> 100, probPauseOnVideo |-> 100, probHomeVideoGood |-> 100,
      probWatchIfGoodHome |-> 100, probWatchIfBadHome |-> 0],
     [probCheckNotifications |-> 0, probPauseOnVideo |-> 50, probHomeVideoGood |-> 0,
      probWatchIfGoodHome |-> 0, probWatchIfBadHome |-> 100]}

\* browseHomePage up to its scroll loop: updateActivity, checkLimits (the
\* verdict is not read), the notifications, the early end
BrowseHomePage ==
    /\ pc = "main"
    /\ session' = checkLimits(updateActivity(session, now), now).self
    /\ \/ /\ actionResult' = Result("Error", NoReason)
          /\ failed' = TRUE
          /\ pc' = "returned"
       \/ /\ failed' = failed
          /\ \E r1, r2 \in RandomValues :
                IF ~probabilityCheck(config.home.probCheckNotifications, r1)
                THEN actionResult' = Result("None", NoReason) /\ pc' = "returned"
                ELSE IF probabilityCheck(100 - config.home.probPauseOnVideo, r2)
                THEN actionResult' = Result("endNow", NoReason) /\ pc' = "returned"
                ELSE actionResult' = Result("None", NoReason) /\ pc' = "scrollHome"
    /\ UNCHANGED <<now, limits, lastOp, stack, phases, homeAlwaysWatch, ended, loop,
                   summary, machine, config, overrides, output, floating, randomVars>>

\* what one pass of while (!exitScroll) decides after scrollDown: the tag it
\* breaks with, or "continue"
ScrollPassOutcome(cfg, r1, r2, r3) ==
    IF ~probabilityCheck(cfg.probPauseOnVideo, r1) THEN "continue"
    ELSE IF probabilityCheck(cfg.probHomeVideoGood, r2)
    THEN (IF probabilityCheck(cfg.probWatchIfGoodHome, r3) THEN "watchVideo" ELSE "None")
    ELSE (IF probabilityCheck(cfg.probWatchIfBadHome, r3) THEN "watchVideo" ELSE "None")

\* one pass of while (!exitScroll): checkLimits (the verdict is not read),
\* scrollDown, then the draws; loop.n counts the scrollDown calls
ScrollPass ==
    /\ pc = "scrollHome"
    /\ loop.n < MaxScrolls
    /\ session' = checkLimits(session, now).self
    /\ loop' = [loop EXCEPT !.n = @ + 1]
    /\ \/ /\ actionResult' = Result("Error", NoReason)
          /\ failed' = TRUE
          /\ pc' = "returned"
          /\ floating' = floating
       \/ /\ failed' = failed
          /\ \E r1, r2, r3 \in RandomValues :
                LET outcome == ScrollPassOutcome(config.home, r1, r2, r3)
                IN IF outcome = "continue"
                   THEN UNCHANGED <<actionResult, pc, floating>>
                   ELSE /\ actionResult' = Result(outcome, NoReason)
                        /\ pc' = "returned"
                        \* this.playRandomVideo(page, session) without await
                        /\ floating' = IF outcome = "watchVideo" THEN "started"
                                       ELSE floating
    /\ UNCHANGED <<now, limits, lastOp, stack, phases, homeAlwaysWatch, ended, summary,
                   machine, config, overrides, output, randomVars>>

NextHomeBrowsing ==
    \/ Tick
    \/ BrowseHomePage
    \/ ScrollPass

InitHomeBrowsing ==
    /\ InitSession(RunConfigs)
    /\ InitOrchestrator(HomeBrowsingConfigs)
    /\ InitMachine
    /\ InitLogger

SpecHomeBrowsing == InitHomeBrowsing /\ [][NextHomeBrowsing]_vars

----------------------------------------------------------------------------
(* The Enhanced controllers: every wrapper saves global.probabilityCheck,   *)
(* installs its own function, awaits the method of its superclass and puts  *)
(* the saved function back.  A function is named after the wrapper that     *)
(* installed it; "original" is the one of utils/random.                     *)

\* the wrappers that install an override
EnhancedMethods ==
    {"browseHomePage", "performSearch", "executeSearchInput", "watchVideo",
     "decideInteractions", "decideNextAction", "browseChannel"}

\* the wrapper that runs innermost
Top(frames) == frames[Len(frames)]

\* const originalProbabilityCheck = global.probabilityCheck;
\* global.probabilityCheck = (percentage) => checkProbability(...)
Install(o, method) ==
    [probabilityCheck |-> method,
     saved |-> Append(o.saved, [method |-> method,
                                originalProbabilityCheck |-> o.probabilityCheck,
                                called |-> FALSE])]

\* the orchestrator calls a method of an Enhanced controller
EnhancedCall ==
    /\ overrides.saved = <<>>
    /\ \E method \in EnhancedMethods \ {"executeSearchInput"} :
          overrides' = Install(overrides, method)
    /\ UNCHANGED <<now, session, limits, lastOp, pc, stack, actionResult, phases,
                   homeAlwaysWatch, ended, failed, loop, summary, machine, config,
                   output, floating, randomVars>>

\* super.performSearch calls this.executeSearchInput, the wrapper again
ExecuteSearchInputCall ==
    /\ overrides.saved # <<>>
    /\ Top(overrides.saved).method = "performSearch"
    /\ ~Top(overrides.saved).called
    /\ overrides' =
          Install([overrides EXCEPT !.saved[Len(overrides.saved)].called = TRUE],
                  "executeSearchInput")
    /\ UNCHANGED <<now, session, limits, lastOp, pc, stack, actionResult, phases,
                   homeAlwaysWatch, ended, failed, loop, summary, machine, config,
                   output, floating, randomVars>>

\* the method of the superclass returns: the saved function is put back
SuperReturns ==
    /\ overrides.saved # <<>>
    /\ overrides' =
          [probabilityCheck |-> Top(overrides.saved).originalProbabilityCheck,
           saved |-> SubSeq(overrides.saved, 1, Len(overrides.saved) - 1)]
    /\ UNCHANGED <<now, session, limits, lastOp, pc, stack, actionResult, phases,
                   homeAlwaysWatch, ended, failed, loop, summary, machine, config,
                   output, floating, randomVars>>

\* the method of the superclass throws: catch logs the error and rethrows
SuperThrows ==
    /\ overrides.saved # <<>>
    /\ overrides' =
          [overrides EXCEPT !.saved = SubSeq(overrides.saved, 1, Len(overrides.saved) - 1)]
    /\ UNCHANGED <<now, session, limits, lastOp, pc, stack, actionResult, phases,
                   homeAlwaysWatch, ended, failed, loop, summary, machine, config,
                   output, floating, randomVars>>

NextOverride ==
    \/ Tick
    \/ EnhancedCall
    \/ ExecuteSearchInputCall
    \/ SuperReturns
    \/ SuperThrows

SpecOverride == Init /\ [][NextOverride]_vars

----------------------------------------------------------------------------
(* Properties of the Session (checked under SpecSession) *)

Elapsed == now - session.startTime
Idle == now - session.lastActivityTime
DurationReached == Elapsed >= session.sessionDuration
VideoCountReached == session.videosWatched >= session.maxVideos
IdleReached == Idle >= session.idleTimeout

\* C1: checkLimits reports at most one reason and, when several limits are
\* exceeded at once, picks it in the order duration, videoCount, idle.
C1_PriorityOrder ==
    lastOp \in CheckOps =>
        /\ limits.reason \in Reasons \cup {NoReason}
        /\ DurationReached => limits.reason = "duration"
        /\ (~DurationReached /\ VideoCountReached) => limits.reason = "videoCount"
        /\ (~DurationReached /\ ~VideoCountReached /\ IdleReached)
              => limits.reason = "idle"

C1_Witness ==
    /\ lastOp \in CheckOps
    /\ DurationReached /\ VideoCountReached /\ IdleReached
    /\ limits.reason = "duration"

\* C2: checkLimits returns exceeded with a reason exactly when elapsed >=
\* sessionDuration or videosWatched >= maxVideos or idle >= idleTimeout, and
\* otherwise not exceeded and no reason; a limit exactly reached counts.
C2_ExceededIff ==
    lastOp \in CheckOps =>
        /\ limits.exceedsLimit <=> (DurationReached \/ VideoCountReached \/ IdleReached)
        /\ limits.exceedsLimit <=> (limits.reason \in Reasons)
        /\ ~limits.exceedsLimit <=> (limits.reason = NoReason)

C2_Witness ==
    /\ lastOp \in CheckOps
    /\ Elapsed = session.sessionDuration
    /\ limits.exceedsLimit

\* C3: a checkLimits call leaves every field of the Session unchanged.
C3_CheckLimitsReadOnly == [][SCheckLimits => session' = session]_vars

C3_Witness ==
    /\ lastOp \in CheckOps
    /\ TotalCount(session) > 0
    /\ TotalLog(session) > 0
    /\ Idle > 0
    /\ limits.exceedsLimit

\* C4: a checkLimits call that directly follows another one, with no Session
\* operation and no clock advance in between, returns the same verdict.
C4_CheckLimitsIdempotent ==
    [][lastOp' = "checkLimitsAgain" => limits' = limits]_vars

C4_Witness ==
    /\ lastOp = "checkLimitsAgain"
    /\ limits.reason = "idle"

\* C6: lastActivityTime >= startTime in every state, from construction on and
\* after any number of updateActivity calls.
C6_ActivityNotBeforeStart == session.lastActivityTime >= session.startTime

C6_Witness ==
    /\ lastOp = "updateActivity"
    /\ session.lastActivityTime > session.startTime

----------------------------------------------------------------------------
(* Properties of youtubeMachine (checked under SpecMachine) *)

\* C7: once terminating has been entered no sub-state of browsing is entered
\* again; only collectingStatistics and completed follow.
C7_TerminatingOneWay ==
    [][/\ machine.state \in EndStates => machine'.state \in EndStates
       /\ machine.state = "terminating"
            => machine'.state \in {"terminating", "collectingStatistics"}
       /\ machine.state = "collectingStatistics"
            => machine'.state \in {"collectingStatistics", "completed"}
       /\ machine.state = "completed" => machine'.state = "completed"]_vars

C7_Witness ==
    /\ machine.state = "completed"
    /\ machine.lastAction # "none"
    /\ machine.endReason = "duration"

\* the states whose service, once resolved, hands over to decidingNext
DecidingStates == {"homePage", "search", "browsingChannel", "decidingInteractions"}

\* C31: decidingNext takes exactly one transition, that of the first guard of
\* the ordered list that holds, also when later guards hold as well: the
\* first guard, shouldCheckLimits, holds, so the machine goes through
\* checkingLimits (on to homePage or terminating with the reason of the
\* limit) whatever the last action is.
C31_FirstGuardWins ==
    [][(machine.state \in DecidingStates /\ machine' # machine
          /\ shouldCheckLimits(machine'.lastAction))
          => /\ machine'.state = CheckingLimitsTarget(session, now)
             /\ machine'.endReason # "userDecision"]_vars

\* a later guard (shouldGoToSearch) holds as well, and checkingLimits was taken
C31_Witness ==
    /\ machine.state = "homePage"
    /\ machine.lastAction = "search"
    /\ \A r \in RandomValues : shouldGoToSearch(machine.lastAction, r)

\* C32: every phase state of browsing can be entered: from homePage, while
\* the session is within its limits, the service can resolve so that the
\* machine goes on to search, to watchingVideo and to browsingChannel.
C32_EveryPhaseCanBeEntered ==
    (machine.state = "homePage" /\ withinLimits(session, now))
    => /\ ENABLED (MServiceDone /\ machine'.state = "search")
       /\ ENABLED (MServiceDone /\ machine'.state = "watchingVideo")
       /\ ENABLED (MServiceDone /\ machine'.state = "browsingChannel")

----------------------------------------------------------------------------
(* Properties of the dispatch loop of index.ts (checked under Spec) *)

\* the counters of the Session, in a fixed order
Counters(s) ==
    <<s.videosWatched, s.searchesPerformed, s.interactions.likes,
      s.interactions.comments, s.interactions.subscribes>>

\* C5: across every step of the orchestrator and of the phase controllers,
\* videosWatched, searchesPerformed and the like / comment / subscribe
\* counters never decrease and are never reset: each one keeps its value or
\* grows by exactly one.
C5_CountersOnlyIncrement ==
    [][\A i \in 1 .. 5 :
          Counters(session')[i] \in {Counters(session)[i], Counters(session)[i] + 1}]_vars

C5_Witness ==
    /\ session.videosWatched >= 1
    /\ session.searchesPerformed >= 1
    /\ session.interactions.likes >= 1

\* C8: once the session has ended (checkLimits reported exceeded in
\* handleNextAction, a controller returned endSession, or the random
\* end-session branch was taken) no phase controller is invoked again.
\* Refuted by index.ts: case "endHomeBrowsing" falls through into
\* case "finishSearch" when the handler it awaited returns.
C8_NoPhaseAfterEnd == [][ended => phases' = phases]_vars

\* C9: when the verdict of the orchestrator's checkLimits is exceeded no
\* further phase is dispatched.  Refuted by index.ts: the code that follows
\* the awaited handler in case "endHomeBrowsing" dispatches a phase without
\* evaluating checkLimits again.
C9_NoPhaseAfterExceededVerdict == [][limits.exceedsLimit => phases' = phases]_vars

\* scenario A: limits {maxVideos: 1, sessionDuration: 60, idleTimeout: 60},
\* every Home phase so far selected watchVideo, no browser call failed
ScenarioA ==
    /\ session.maxVideos = 1
    /\ session.sessionDuration = 60
    /\ session.idleTimeout = 60
    /\ homeAlwaysWatch
    /\ ~failed

\* C10: in scenario A the orchestrator runs Home, then Video, and nothing
\* else; when main has finished both phases have run and the final summary
\* reports videosWatched = 1.
C10_HomeVideoThenEnd ==
    ScenarioA =>
        /\ phases \in {<<>>, <<"Home">>, <<"Home", "Video">>}
        /\ pc = "done" =>
              /\ phases = <<"Home", "Video">>
              /\ summary.videosWatched = 1

C10_Witness ==
    /\ ScenarioA
    /\ pc = "done"
    /\ phases = <<"Home", "Video">>
    /\ summary.videosWatched = 1
    /\ limits.exceedsLimit
    /\ limits.reason = "videoCount"

\* scenario B: homeToSearch = 100 and every other Home option at 0
ScenarioB ==
    /\ config.home.homeToSearch = 100
    /\ \A f \in DOMAIN config.home \ {"homeToSearch"} : config.home[f] = 0

C12_NoExceptionFromController ==
    [][pc' = "fatal" => pc \in {"main", "summary", "fatal"}]_vars

\* C13: whenever the result a phase controller handed over is 'error', the
\* Error log of the Session holds an entry for it, the last one, whose
\* source is the phase that failed.
\* Refuted: the catch blocks of the controllers log and take a screenshot
\* but never call recordError.
C13_ErrorResultIsRecorded ==
    actionResult.action = "error" =>
        /\ session.summarize.error # <<>>
        /\ session.summarize.error[Len(session.summarize.error)].source
              = phases[Len(phases)]

\* C14: when the orchestrator receives the result 'error' from a phase
\* controller, the Video phase included, and its limit check does not end the
\* session, it goes on to browse Home.
\* Refuted: handleWatchVideo only navigates to the home page on 'error' and
\* returns, which ends the handler chain.
C14_ErrorRecoversToHome ==
    [][(/\ actionResult.action = "error"
        /\ pc \in {"handleNextAction", "watchResult"}
        /\ pc' # pc
        /\ ~(pc = "handleNextAction" /\ limits'.exceedsLimit))
          => pc' = "handleHomePage"]_vars

----------------------------------------------------------------------------
(* Properties of the random helpers (checked under SpecRandom) *)

ProbabilityCheckCalls ==
    {"probabilityCheck", "checkProbability", "channelOverride", "interactionOverride"}

LoggedCalls == ProbabilityCheckCalls \ {"probabilityCheck"}

\* C15: a probability check with percentage p and draw r returns exactly
\* r < p, so that p = 0 never succeeds.
\* Refuted: both variants compare with <=, and a draw equal to the
\* percentage succeeds (p = 0 with a draw of 0).
C15_CheckIsStrictlyLess ==
    call.fn \in ProbabilityCheckCalls =>
        call.result = (call.randomValue < call.percentage)

\* C16: every call of the probability check appends exactly one entry to the
\* telemetry log, carrying the percentage, the drawn value and the result.
\* Refuted: probabilityCheck of utils/random, which the controllers of
\* index.ts import, logs nothing.
C16_EveryCheckIsLogged ==
    [][(call'.fn \in ProbabilityCheckCalls /\ call' # call) =>
          /\ Len(logEntries') = Len(logEntries) + 1
          /\ SubSeq(logEntries', 1, Len(logEntries)) = logEntries
          /\ LET entry == logEntries'[Len(logEntries')]
             IN /\ entry.probability = call'.percentage
                /\ entry.actualValue = call'.randomValue
                /\ entry.result = call'.result]_vars

\* C17: the label logged with a probability check names the configuration
\* property the check was made for.
\* Refuted: the overrides of the enhanced controllers take the first
\* property whose value equals the percentage.
C17_LabelNamesOrigin ==
    call.fn \in LoggedCalls =>
        logEntries[Len(logEntries)].section = call.property

\* C18: a weighted choice whose weights sum to zero selects the first option
\* of its list and leaves a degenerate-distribution entry in the telemetry.
\* Refuted: the selection keeps its initial value, which is the last option
\* for the behaviour choice, and nothing is logged.
C18_ZeroTotalSelectsFirst ==
    (call.fn \in {"behaviourChoice", "nextActionChoice"} /\ SumSeq(call.weights) = 0) =>
        /\ call.selected = (IF call.fn = "behaviourChoice" THEN BehaviourOptions[1]
                            ELSE NextActionOptions[1])
        /\ \E i \in DOMAIN logEntries : logEntries[i].type = "degenerate_distribution"

\* the weighted choices among the calls
WeightedChoiceCalls == {"behaviourChoice", "nextActionChoice"}

\* C27: for positive weights, the normalised weights sum to 100 (the sum of
\* the fractions num / den equals 100) and keep the proportions of the
\* configured weights.
C27_NormalizedSumTo100 ==
    (call.fn \in WeightedChoiceCalls /\ \A i \in DOMAIN call.weights : call.weights[i] > 0)
    => LET n == call.normalized
           total == n[1].den
       IN /\ total > 0
          /\ \A i \in DOMAIN n : n[i].den = total
          /\ SumSeq([i \in DOMAIN n |-> n[i].num]) = 100 * total
          /\ \A i, j \in DOMAIN n :
                n[i].num * call.weights[j] = n[j].num * call.weights[i]

C27_Witness ==
    /\ call.fn = "behaviourChoice"
    /\ call.weights = <<1, 2, 3, 1>>
    /\ call.normalized[3] = [num |-> 300, den |-> 7]

\* the option list of a weighted choice, and the cumulative weight up to an
\* option, as a numerator over the total
OptionsOf(fn) == IF fn = "behaviourChoice" THEN BehaviourOptions ELSE NextActionOptions

Cumulative(weights, i) == 100 * SumSeq(SubSeq(weights, 1, i))

C29_Draw50SelectsSecond ==
    (call.fn = "behaviourChoice" /\ call.weights = <<50, 50, 0, 0>>
       /\ call.randomValue = 50)
    => call.selected = BehaviourOptions[2]

\* C29 as the code behaves: the cumulative weight of the first option, 50,
\* is >= the draw, and the first option is selected.
C29_Draw50SelectsFirst ==
    (call.fn = "behaviourChoice" /\ call.weights = <<50, 50, 0, 0>>
       /\ call.randomValue = 50)
    => call.selected = BehaviourOptions[1]

C29_Witness ==
    /\ call.fn = "behaviourChoice"
    /\ call.weights = <<50, 50, 0, 0>>
    /\ call.randomValue = 50
    /\ call.selected = "interestingSection"

----------------------------------------------------------------------------
(* Properties of the recorders (checked under SpecTelemetry) *)

IsPrefix(a, b) == Len(a) <= Len(b) /\ SubSeq(b, 1, Len(a)) = a

\* C19: the telemetry only grows by appending: in every step each list of
\* the Session's record and the logger's list keeps what it held as a
\* prefix, in the same order, and a record operation adds exactly one entry
\* at the end of exactly one list.
C19_LogsOnlyAppend ==
    [][/\ \A k \in DOMAIN session.summarize :
             IsPrefix(session.summarize[k], session'.summarize[k])
       /\ IsPrefix(logEntries, logEntries')
       /\ TotalLog(session') + Len(logEntries') = Recorded + 1]_vars

C19_Witness ==
    /\ Len(session.summarize.random) = 2
    /\ session.summarize.random[1] # session.summarize.random[2]
    /\ lastOp = "recordRandom"

\* C40: the result stored in a recorded random decision is the boolean the
\* probability check (of utils/random and of utils/enhanced-random) returns
\* for the recorded value and percentage, the value equal to the percentage
\* included.
C40_RecordedResultIsCheckResult ==
    \A i \in DOMAIN session.summarize.random :
       LET entry == session.summarize.random[i]
       IN /\ entry.result = probabilityCheck(entry.configValue, entry.actualValue)
          /\ entry.result
               = enhancedProbabilityCheck(<<>>, entry.configValue, entry.configName,
                                          "none", entry.actualValue).ret

\* a decision drawn exactly at the percentage has been recorded
C40_Witness ==
    \E i \in DOMAIN session.summarize.random :
       /\ session.summarize.random[i].actualValue = session.summarize.random[i].configValue
       /\ session.summarize.random[i].result

----------------------------------------------------------------------------
(* Properties of the dispatch loop of index.ts, continued (checked under Spec) *)

\* C20: a phase controller evaluates checkLimits before it commits to an
\* effect with observable cost, and starts no effect once a limit is exceeded:
\* here, watchVideo gets past handleAds and adjustVolume (and so reaches
\* viewVideoContent) only from a session that checkLimits, called after the
\* controller's updateActivity, finds within its limits.  watchVideo calls
\* no checkLimits before those effects.
C20_ChecksLimitsBeforeEffect ==
    [][(pc = "handleWatchVideo" /\ pc' = "viewVideoContent")
          => ~checkLimits(updateActivity(session, now), now).ret.exceedsLimit]_vars

\* C21: when an error escapes the main flow, the process exits only after
\* both the flush of the telemetry and the release of the browser have been
\* attempted.
C21_FatalExitFlushesAndReleases ==
    output.exit = "exit1" => (output.closeAttempted /\ output.reportAttempted)

\* C22: whenever the dispatch loop has stopped and main goes on to the
\* summary, the end of the session has a recorded reason: a limit verdict, an
\* endSession result or the explicit decision to end after Home.  Sessions
\* in which an Action Provider call failed are left aside.
C22_EndHasRecordedReason ==
    (pc = "summary" /\ ~failed) => ended

\* C25: when handleNextAction finds the session within its limits, the
\* handler it goes on to is fixed by the action tag: from one state it has
\* one possible target, whatever the orchestrator draws.
NextHandlers == {"handleHomePage", "handleSearch", "handleWatchVideo",
                 "handleViewChannel", "return"}

C25_NextPhaseFixedByTag ==
    (pc = "handleNextAction"
       /\ ~checkLimits(updateActivity(session, now), now).ret.exceedsLimit)
    => \A h1, h2 \in NextHandlers :
          (ENABLED (HandleNextAction /\ pc' = h1)
             /\ ENABLED (HandleNextAction /\ pc' = h2)) => h1 = h2

\* C26: at the moment a phase controller hands its ActionResult to
\* handleNextAction, no Action Provider operation it started is still in
\* flight.
C26_NothingInFlightAtReturn ==
    pc = "handleNextAction" => floating # "started"

\* C33: a Video phase that completes without an error and without a limit
\* verdict (videoCompleted or videoPartiallyWatched) is followed by the
\* decision of the interactions, before anything else is decided.
C33_InteractionsFollowVideo ==
    [][(pc = "watchResult" /\ pc' # pc
          /\ actionResult.action \in {"videoCompleted", "videoPartiallyWatched"})
          => pc' = "decideInteractions"]_vars

\* C34: every action tag a phase controller returns is one the switch of
\* handleNextAction has a case for: the switch is never entered (the session
\* being within its limits) with a tag that goes to its default branch.
C34_NoTagReachesDefault ==
    (pc = "handleNextAction"
       /\ ~checkLimits(updateActivity(session, now), now).ret.exceedsLimit)
    => actionResult.action \in DispatchedTags

\* C35: in every state of a session driven by the dispatch loop the number
\* of videos watched is at most maxVideos: no video is started once the
\* video-count limit is reached.
C35_VideosWithinMax == session.videosWatched <= session.maxVideos

\* the last video the limit allows has been started
C35_Witness ==
    /\ session.maxVideos = 2
    /\ session.videosWatched = session.maxVideos
    /\ pc = "viewVideoContent"

\* the phase controller invoked last
LastPhase == IF phases = <<>> THEN "none" ELSE phases[Len(phases)]

\* a phase controller has just returned its result to its handler
ResultHandedOver == pc \in {"handleNextAction", "watchResult"}

\* C36 as the specification states it: with idleTimeout > 0 the check of
\* handleNextAction never reports the reason idle, and a result that ends the
\* session for idleness comes from the Video phase only.
C36_IdleOnlyFromVideo ==
    session.idleTimeout > 0
    => /\ limits.reason # "idle"
       /\ (ResultHandedOver /\ actionResult = Result("endSession", "idle")
             => LastPhase = "Video")

\* C36 as the code behaves: with idleTimeout > 0 the check of
\* handleNextAction never reports the reason idle, and a result that ends the
\* session for idleness comes from the Video phase or from the scroll loop of
\* the Home phase.
C36_IdleOnlyFromVideoOrHome ==
    session.idleTimeout > 0
    => /\ limits.reason # "idle"
       /\ (ResultHandedOver /\ actionResult = Result("endSession", "idle")
             => LastPhase \in {"Video", "Home"})

\* the scroll loop of the Home phase has reported idle, and handleNextAction,
\* after its updateActivity, has found the session within its limits
C36_Witness ==
    /\ session.idleTimeout > 0
    /\ actionResult = Result("endSession", "idle")
    /\ LastPhase = "Home"
    /\ pc = "return"
    /\ ~limits.exceedsLimit

\* the watch loop of viewVideoContent is running
Watching == pc \in {"viewVideoContent", "tabInactive"}

\* C37: in viewVideoContent watchedTime stays between 0 and the planned
\* watchDuration (a skip is clamped to it) and never decreases, and every
\* pass of the loop that does not end the video advances it by at least 1
\* second; watchDuration - watchedTime is therefore a variant of the loop,
\* which ends after finitely many segments.
C37_WatchedTimeAdvances ==
    /\ [](Watching => (0 <= loop.watchedTime /\ loop.watchedTime <= loop.watchDuration))
    /\ [][(Watching /\ Watching') => loop'.watchedTime >= loop.watchedTime]_vars
    /\ [][(pc = "viewVideoContent" /\ loop.watchedTime < loop.watchDuration
            /\ Watching' /\ now' = now /\ floating' = floating)
            => loop'.watchedTime >= loop.watchedTime + 1]_vars

\* the loop has reached the planned duration after more than one segment
C37_Witness ==
    /\ pc = "viewVideoContent"
    /\ loop.watchDuration = 40
    /\ loop.watchedTime = loop.watchDuration

\* 1 for a flag that is set, 0 otherwise
Flag(b) == IF b THEN 1 ELSE 0

\* C39: the flags decideInteractions returns agree with the counters of the
\* Session: over the call each of likes, comments and subscribes grows by 1
\* when its flag is true and stays as it is when its flag is false.
C39_FlagsAgreeWithCounters ==
    [][(pc = "decideInteractions" /\ pc' = "decideNextAction")
         => /\ session'.interactions.likes
                 = session.interactions.likes + Flag(loop'.result.liked)
            /\ session'.interactions.comments
                 = session.interactions.comments + Flag(loop'.result.commented)
            /\ session'.interactions.subscribes
                 = session.interactions.subscribes + Flag(loop'.result.subscribed)]_vars

----------------------------------------------------------------------------
(* Properties of browseHomePage on its own (checked under SpecHomeBrowsing) *)

\* C30: a long-running loop of a phase controller evaluates checkLimits on
\* each pass and leaves with an endSession result when a limit is exceeded:
\* here, a pass of the scroll loop of browseHomePage (a scrollDown is made)
\* that starts with a limit exceeded and in which nothing throws leaves the
\* loop with endSession.
C30_LoopLeavesOnExceededLimit ==
    [][(pc = "scrollHome" /\ loop'.n # loop.n /\ ~failed'
          /\ checkLimits(session, now).ret.exceedsLimit)
          => (pc' # "scrollHome" /\ actionResult'.action = "endSession")]_vars

----------------------------------------------------------------------------
(* Properties of the Enhanced controllers (checked under SpecOverride) *)

\* C38: when a method of an Enhanced controller returns or throws,
\* global.probabilityCheck is the function that was installed before the
\* call, nested calls and the throwing path included.
C38_OverrideNeverOutlivesCall ==
    [][Len(overrides'.saved) < Len(overrides.saved)
         => overrides'.probabilityCheck
              = Top(overrides.saved).originalProbabilityCheck]_vars

----------------------------------------------------------------------------
(* Properties of main of index-enhanced.ts (checked under SpecShutdown) *)

\* C23: when the session has completed, every entry logged during it, the
\* entries about closing the browser and completing the session included, is
\* contained in the report and in the raw log that were flushed.
C23_FlushHoldsEveryEntry ==
    output.exit = "completed" =>
        /\ Range(logEntries) \subseteq Range(output.report)
        /\ Range(logEntries) \subseteq Range(output.rawLogs)

====
